---- MODULE Spec2Model ----
(***************************************************************************)
(* Model of setup.py of intel-extension-for-pytorch: the environment       *)
(* probes, the version resolution, the code generation step, the native    *)
(* build (IPEXBuild) and the clean hook (IPEXClean).                        *)
(*                                                                         *)
(* Python strings are sequences of one-character strings, so that upper(), *)
(* strip(), slicing and regular-expression prefixes are computed and not   *)
(* assumed.  Python's None is the one-element sequence <<"None">>, which   *)
(* no character string equals.                                             *)
(***************************************************************************)
EXTENDS Integers, Sequences, FiniteSets, TLC

VARIABLES
  environ,        \* os.environ: variable name -> value, None when unset
  pc,             \* position of the script
  cwd,            \* the process's working directory (a path)
  start_dir,      \* the directory the script was started in
  cur_dir,        \* generate_ipex_cpu_aten_code's saved directory
  calls,          \* the external processes invoked so far, in order
  exit_status,    \* "running", then "zero" or "nonzero"
  ipex_git_sha,   \* module-level ipex_git_sha
  torch_git_sha,  \* module-level torch_git_sha
  version,        \* module-level version
  version_files,  \* what create_version_files wrote
  installed,      \* the executables find_executable can see
  platform_system,\* platform.system()
  cmake,          \* IPEXBuild.cmake
  ext_i,          \* index of the extension being built
  use_ninja,      \* build_extension's use_ninja
  build_env,      \* build_extension's env (the copy of os.environ)
  build_dir_made, \* ext.build_dir exists
  flag_name,      \* the flag a probe of _check_env_flag reads
  flag_result,    \* the result of that probe
  gitignore,      \* the lines of .gitignore ('\n'-separated)
  fs,             \* the filesystem entries below the working directory
  undeletable,    \* the entries whose removal the OS refuses
  line_i,         \* IPEXClean.run's position in the lines
  globbed,        \* the line numbers glob.glob was called for
  removed         \* the entries IPEXClean.run removed

vars == <<environ, pc, cwd, start_dir, cur_dir, calls, exit_status, ipex_git_sha,
          torch_git_sha, version, version_files, installed, platform_system,
          cmake, ext_i, use_ninja, build_env, build_dir_made,
          flag_name, flag_result, gitignore, fs, undeletable, line_i,
          globbed, removed>>

----------------------------------------------------------------------------
(* Bounds *)

MaxLen == 3       \* longest enumerated value of a flag variable
MaxLines == 3     \* most lines of a .gitignore

----------------------------------------------------------------------------
(* Strings *)

None == <<"None">>

LowerCase == <<"a","b","c","d","e","f","g","h","i","j","k","l","m",
               "n","o","p","q","r","s","t","u","v","w","x","y","z">>
UpperCase == <<"A","B","C","D","E","F","G","H","I","J","K","L","M",
               "N","O","P","Q","R","S","T","U","V","W","X","Y","Z">>

\* str.upper() on one character
UpperChar(c) ==
  IF \E i \in 1..26 : LowerCase[i] = c
  THEN UpperCase[CHOOSE i \in 1..26 : LowerCase[i] = c]
  ELSE c

\* str.upper()
upper(s) == [i \in 1..Len(s) |-> UpperChar(s[i])]

\* str.lower() on one character, used to state case-insensitive equality
LowerChar(c) ==
  IF \E i \in 1..26 : UpperCase[i] = c
  THEN LowerCase[CHOOSE i \in 1..26 : UpperCase[i] = c]
  ELSE c

lower(s) == [i \in 1..Len(s) |-> LowerChar(s[i])]

IsSpace(c) == c \in {" ", "\t", "\n"}

RECURSIVE lstrip(_)
lstrip(s) == IF s # <<>> /\ IsSpace(Head(s)) THEN lstrip(Tail(s)) ELSE s

RECURSIVE rstrip(_)
rstrip(s) ==
  IF s # <<>> /\ IsSpace(s[Len(s)]) THEN rstrip(SubSeq(s, 1, Len(s) - 1)) ELSE s

\* str.strip()
strip(s) == rstrip(lstrip(s))

\* s[:n]
SliceTo(s, n) == SubSeq(s, 1, IF Len(s) < n THEN Len(s) ELSE n)

StartsWith(s, p) == Len(p) <= Len(s) /\ SubSeq(s, 1, Len(p)) = p

\* every string over alphabet A of length at most n
StringsUpTo(A, n) == UNION {[1..k -> A] : k \in 0..n}

----------------------------------------------------------------------------
(* Environment Prober *)

\* os.getenv(name, default)
getenv(e, name, default) == IF e[name] = None THEN default ELSE e[name]

TruthyUpper == {<<"O","N">>, <<"1">>, <<"Y","E","S">>, <<"T","R","U","E">>, <<"Y">>}

check_env_flag_cs(e, name, default) == getenv(e, name, default) \in TruthyUpper

check_env_flag(e, name, default) == upper(getenv(e, name, default)) \in TruthyUpper


cpu == <<"c","p","u">>
gpu == <<"g","p","u">>
env_backend_options == {cpu, gpu}

SysExit == <<"SystemExit">>

\* _get_env_backend(): the backend, or SysExit where the code calls sys.exit(1)
get_env_backend(e) ==
  LET env_backend_val == e["IPEX_BACKEND"]
  IN  IF env_backend_val = None \/ strip(env_backend_val) = <<>>
      THEN cpu
      ELSE IF env_backend_val \notin env_backend_options
           THEN SysExit
           ELSE env_backend_val

----------------------------------------------------------------------------
(* Version Resolver *)

DefaultVersion == <<"1",".","0",".","0">>
ShortShaLen == 7

get_build_version_full_sha(e, sha) ==
  LET base == getenv(e, "TORCH_IPEX_VERSION", DefaultVersion)
  IN  IF check_env_flag(e, "VERSIONED_IPEX_BUILD", <<"0">>) /\ sha # None
      THEN base \o <<"+">> \o sha
      ELSE base

\* get_build_version(ipex_git_sha); slicing None raises, which the code swallows
get_build_version(e, sha) ==
  LET base == getenv(e, "TORCH_IPEX_VERSION", DefaultVersion)
  IN  IF check_env_flag(e, "VERSIONED_IPEX_BUILD", <<"0">>)
      THEN IF sha = None
           THEN base
           ELSE base \o <<"+">> \o SliceTo(sha, ShortShaLen)
      ELSE base

----------------------------------------------------------------------------
(* Paths and the external world *)

base_dir == <<"repo">>
scripts_cpu_dir == base_dir \o <<"scripts", "cpu">>
cpu_ops_path == base_dir \o <<"torch_ipex", "csrc", "cpu">>
sparse_dec_file_path == base_dir \o <<"scripts", "cpu", "pytorch_headers">>
pytorch_install_dir == <<"site-packages", "torch">>
python_include_dir == <<"usr", "include", "python">>
sys_executable == <<"usr", "bin", "python">>

\* ext_modules=[IPEXExt('_torch_ipex')]
extensions == <<[name |-> "_torch_ipex",
                 project_dir |-> base_dir,
                 build_dir |-> base_dir \o <<"build">>]>>

\* dirname(get_ext_fullpath(name)) of a top-level module: build_ext's build_lib
ExtFullDir == base_dir \o <<"build", "lib">>

compute_pp == <<"c","o","m","p","u","t","e","+","+">>
gnu_pp == <<"g","+","+">>

NoExecutable == "None"
LaunchFailed == 0 - 1       \* the program could not be started (OSError)
ExitCodes == {0, 1}

\* a 40-character revision hash repeating the pattern p
Sha(p) == [i \in 1..40 |-> p[((i - 1) % Len(p)) + 1]]
Shas == {Sha(<<"a","1","f">>), Sha(<<"0","9","c","e","b">>)}
ParentShas == {Sha(<<"7","d">>)}

Arg(flag, val) == [flag |-> flag, val |-> val]

Call(prog, args, dir, env, rc) ==
  [prog |-> prog, args |-> args, cwd |-> dir, env |-> env, rc |-> rc]

EnvNames == {"IPEX_BACKEND", "VERSIONED_IPEX_BUILD", "DEBUG", "USE_SYCL",
             "DPCPP_ENABLE_PROFILING", "USE_NINJA", "TORCH_IPEX_VERSION", "CXX"}

FlagNames == {"VERSIONED_IPEX_BUILD", "DEBUG", "USE_SYCL",
              "DPCPP_ENABLE_PROFILING", "USE_NINJA"}

\* the default each flag is read with
FlagDefault(name) == IF name = "VERSIONED_IPEX_BUILD" THEN <<"0">> ELSE <<>>

EmptyEnv == [n \in EnvNames |-> None]


----------------------------------------------------------------------------
(* The script, run as `setup.py build_ext` *)

RunBackendValues == {None, <<" ">>, gpu, <<"t","p","u">>}
RunVersionValues == {None, <<"2",".","1">>}
RunCxxValues == {None, gnu_pp, compute_pp}
RunCwds == {base_dir, <<"home">>}
Platforms == {"Linux", "Windows"}
Executables == {"cmake3", "cmake"}

\* the variables only the clean hook and the flag probe use
IdleRest ==
  /\ flag_name = "" /\ flag_result = "unread"
  /\ gitignore = <<>> /\ fs = {} /\ undeletable = {}
  /\ line_i = 0 /\ globbed = {} /\ removed = {}

Init ==
  /\ \E b \in RunBackendValues, vb \in {None, <<"1">>}, d \in {None, <<"1">>},
        s \in {None, <<"1">>, <<"0">>}, pr \in {None, <<"1">>},
        n \in {None, <<"1">>}, v \in RunVersionValues, cxx \in RunCxxValues :
       environ = [EmptyEnv EXCEPT !["IPEX_BACKEND"] = b,
                                  !["VERSIONED_IPEX_BUILD"] = vb,
                                  !["DEBUG"] = d,
                                  !["USE_SYCL"] = s,
                                  !["DPCPP_ENABLE_PROFILING"] = pr,
                                  !["USE_NINJA"] = n,
                                  !["TORCH_IPEX_VERSION"] = v,
                                  !["CXX"] = cxx]
  /\ pc = "get_git_head_sha"
  /\ cwd \in RunCwds
  /\ start_dir = cwd
  /\ cur_dir = <<>>
  /\ calls = <<>>
  /\ exit_status = "running"
  /\ ipex_git_sha = None
  /\ torch_git_sha = None
  /\ version = None
  /\ version_files = <<>>
  /\ installed \in SUBSET Executables
  /\ platform_system \in Platforms
  /\ cmake = NoExecutable
  /\ ext_i = 0
  /\ use_ninja = FALSE
  /\ build_env = EmptyEnv
  /\ build_dir_made = FALSE
  /\ IdleRest

UnchangedRest ==
  UNCHANGED <<start_dir, flag_name, flag_result, gitignore, fs, undeletable, line_i,
              globbed, removed>>

\* an exception nobody catches, or sys.exit(1): the interpreter exits non-zero
Abort == pc' = "exited" /\ exit_status' = "nonzero"

GitCall(dir, rc) == Call("git", <<Arg("rev-parse", <<>>), Arg("HEAD", <<>>)>>, dir, environ, rc)

\* lines 221, 54-64: check_output raises when git exits non-zero or is missing
GetGitHeadSha ==
  /\ pc = "get_git_head_sha"
  /\ \/ /\ calls' = Append(calls, GitCall(base_dir, 1))
        /\ Abort
        /\ UNCHANGED <<ipex_git_sha, torch_git_sha>>
     \/ \E sha \in Shas :
          LET out == strip(sha \o <<"\n">>)
          IN  \/ \* no parent checkout
                 /\ calls' = Append(calls, GitCall(base_dir, 0))
                 /\ ipex_git_sha' = out
                 /\ torch_git_sha' = <<>>
                 /\ pc' = "get_build_version"
                 /\ UNCHANGED exit_status
              \/ \* a parent checkout whose query fails
                 /\ calls' = calls \o <<GitCall(base_dir, 0), GitCall(base_dir \o <<"..">>, 1)>>
                 /\ Abort
                 /\ UNCHANGED <<ipex_git_sha, torch_git_sha>>
              \/ \E sha2 \in ParentShas :
                 /\ calls' = calls \o <<GitCall(base_dir, 0), GitCall(base_dir \o <<"..">>, 0)>>
                 /\ ipex_git_sha' = out
                 /\ torch_git_sha' = strip(sha2 \o <<"\n">>)
                 /\ pc' = "get_build_version"
                 /\ UNCHANGED exit_status
  /\ UNCHANGED <<environ, cwd, cur_dir, version, version_files, installed,
                 platform_system, cmake, ext_i, use_ninja, build_env,
                 build_dir_made>>
  /\ UnchangedRest

\* line 222
GetBuildVersion ==
  /\ pc = "get_build_version"
  /\ version' = get_build_version(environ, ipex_git_sha)
  /\ pc' = "create_version_files"
  /\ UNCHANGED <<environ, cwd, cur_dir, calls, exit_status, ipex_git_sha,
                 torch_git_sha, version_files, installed, platform_system,
                 cmake, ext_i, use_ninja, build_env, build_dir_made>>
  /\ UnchangedRest

\* lines 225, 77-93: an I/O error while writing is not caught
CreateVersionFiles ==
  /\ pc = "create_version_files"
  /\ \/ /\ version_files' = <<[file |-> "version.py",
                               text |-> <<version, ipex_git_sha, torch_git_sha>>],
                              [file |-> "version.cpp",
                               text |-> <<ipex_git_sha, torch_git_sha>>]>>
        /\ pc' = "setup"
        /\ UNCHANGED exit_status
     \/ /\ Abort
        /\ UNCHANGED version_files
  /\ UNCHANGED <<environ, cwd, cur_dir, calls, ipex_git_sha, torch_git_sha,
                 version, installed, platform_system, cmake, ext_i, use_ninja,
                 build_env, build_dir_made>>
  /\ UnchangedRest

\* lines 244-263: setup() dispatches build_ext to IPEXBuild.run
Setup ==
  /\ pc = "setup"
  /\ pc' = "generate_sparse"
  /\ UNCHANGED <<environ, cwd, cur_dir, calls, exit_status, ipex_git_sha,
                 torch_git_sha, version, version_files, installed,
                 platform_system, cmake, ext_i, use_ninja, build_env,
                 build_dir_made>>
  /\ UnchangedRest

SparseCall(rc) ==
  Call("./gen-sparse-cpu-ops.sh",
       <<Arg("", cpu_ops_path), Arg("", pytorch_install_dir),
         Arg("", sparse_dec_file_path)>>,
       scripts_cpu_dir, environ, rc)

DenseCall(rc) ==
  Call("./gen-dense-cpu-ops.sh",
       <<Arg("", cpu_ops_path), Arg("", pytorch_install_dir)>>,
       scripts_cpu_dir, environ, rc)


cwd_after_sparse_stay(rc, saved) == scripts_cpu_dir

\* lines 99-107: the directory the process is in once the sparse generator is over
cwd_after_sparse(rc, saved) ==
  IF rc \in ExitCodes \ {0} THEN saved ELSE scripts_cpu_dir

cwd_after_dense_stay(rc, saved) == scripts_cpu_dir

\* lines 110-115: the directory the process is in once the dense generator is over
cwd_after_dense(rc, saved) ==
  IF rc = LaunchFailed THEN scripts_cpu_dir ELSE saved

\* lines 156, 96-107: chdir, run the sparse generator, restore and exit if it fails
GenerateSparse ==
  /\ pc = "generate_sparse"
  /\ cur_dir' = cwd
  /\ \E rc \in ExitCodes \cup {LaunchFailed} :
       /\ calls' = Append(calls, SparseCall(rc))
       /\ cwd' = cwd_after_sparse(rc, cur_dir')
       /\ IF rc # 0
          THEN \* sys.exit(1), or the OSError of a generator that cannot start
               Abort
          ELSE /\ pc' = "generate_dense"
               /\ UNCHANGED exit_status
  /\ UNCHANGED <<environ, ipex_git_sha, torch_git_sha, version, version_files,
                 installed, platform_system, cmake, ext_i, use_ninja,
                 build_env, build_dir_made>>
  /\ UnchangedRest

\* lines 109-115: run the dense generator, restore the directory
GenerateDense ==
  /\ pc = "generate_dense"
  /\ \E rc \in ExitCodes \cup {LaunchFailed} :
       /\ calls' = Append(calls, DenseCall(rc))
       /\ cwd' = cwd_after_dense(rc, cur_dir)
       /\ IF rc # 0
          THEN Abort
          ELSE /\ pc' = "find_cmake"
               /\ UNCHANGED exit_status
  /\ UNCHANGED <<environ, cur_dir, ipex_git_sha, torch_git_sha, version,
                 version_files, installed, platform_system, cmake, ext_i,
                 use_ninja, build_env, build_dir_made>>
  /\ UnchangedRest

\* find_executable('cmake3') or find_executable('cmake')
find_cmake_unchecked(inst) == IF "cmake3" \in inst THEN "cmake3" ELSE "cmake"

find_cmake(inst) ==
  IF "cmake3" \in inst THEN "cmake3"
  ELSE IF "cmake" \in inst THEN "cmake"
  ELSE NoExecutable

\* lines 158-168: both RuntimeErrors leave run() uncaught
FindCMake ==
  /\ pc = "find_cmake"
  /\ LET found == find_cmake(installed)
     IN  IF found = NoExecutable
         THEN /\ Abort
              /\ UNCHANGED <<cmake, ext_i>>
         ELSE /\ cmake' = found
              /\ IF platform_system = "Windows"
                 THEN /\ Abort
                      /\ UNCHANGED ext_i
                 ELSE IF Len(extensions) = 0
                      THEN /\ pc' = "exited"
                           /\ exit_status' = "zero"
                           /\ UNCHANGED ext_i
                      ELSE /\ pc' = "build_extension"
                           /\ ext_i' = 1
                           /\ UNCHANGED exit_status
  /\ UNCHANGED <<environ, cwd, cur_dir, calls, ipex_git_sha, torch_git_sha,
                 version, version_files, installed, platform_system,
                 use_ninja, build_env, build_dir_made>>
  /\ UnchangedRest

\* `a is b` on two strings: false when they differ, and up to the interpreter
\* (interning) when they are equal
IsSameObject(a, b, interned) == a = b /\ interned

\* lines 172, 183-184
ext_dir_for(name, sycl, interned) ==
  IF IsSameObject(name, "torch_ipex", interned) /\ sycl
  THEN Append(ExtFullDir, "torch_ipex")
  ELSE ExtFullDir

\* lines 176-203
cmake_args_for(e, ext_dir) ==
  <<Arg("-DCMAKE_BUILD_TYPE=",
        IF check_env_flag(e, "DEBUG", <<>>) THEN <<"Debug">> ELSE <<"Release">>),
    Arg("-DPYTORCH_INSTALL_DIR=", pytorch_install_dir),
    Arg("-DPYTHON_EXECUTABLE=", sys_executable),
    Arg("-DCMAKE_INSTALL_PREFIX=", ext_dir),
    Arg("-DCMAKE_LIBRARY_OUTPUT_DIRECTORY=", ext_dir),
    Arg("-DPYTHON_INCLUDE_DIR=", python_include_dir)>>
  \o (IF check_env_flag(e, "USE_SYCL", <<>>)
      THEN <<Arg("-DUSE_SYCL=1", <<>>)>> ELSE <<>>)
  \o (IF check_env_flag(e, "DPCPP_ENABLE_PROFILING", <<>>)
      THEN <<Arg("-DDPCPP_ENABLE_PROFILING=1", <<>>)>> ELSE <<>>)
  \o (IF check_env_flag(e, "USE_NINJA", <<>>)
      THEN <<Arg("-GNinja", <<>>)>> ELSE <<>>)

\* line 205
build_args == <<Arg("-j", <<>>), Arg("", <<"cpu_count">>)>>

\* lines 171-212: the configure half of build_extension
Configure ==
  /\ pc = "build_extension"
  /\ \E interned \in BOOLEAN, rc \in ExitCodes :
       LET ext == extensions[ext_i]
           sycl == check_env_flag(environ, "USE_SYCL", <<>>)
           ext_dir == ext_dir_for(ext.name, sycl, interned)
           env == environ                 \* env = os.environ.copy()
       IN  /\ build_dir_made' = TRUE
           /\ use_ninja' = check_env_flag(environ, "USE_NINJA", <<>>)
           /\ build_env' = env
           /\ environ' = IF sycl
                         THEN [environ EXCEPT !["CXX"] = compute_pp]
                         ELSE environ
           /\ calls' = Append(calls,
                         Call(cmake,
                              <<Arg("", ext.project_dir)>> \o cmake_args_for(environ, ext_dir),
                              ext.build_dir, env, rc))
           /\ IF rc # 0
              THEN Abort
              ELSE /\ pc' = "compile"
                   /\ UNCHANGED exit_status
  /\ UNCHANGED <<cwd, cur_dir, ipex_git_sha, torch_git_sha, version,
                 version_files, installed, platform_system, cmake, ext_i>>
  /\ UnchangedRest

\* lines 215-218, and the loop of line 168
Compile ==
  /\ pc = "compile"
  /\ \E rc \in ExitCodes :
       /\ calls' = Append(calls,
                     Call(IF use_ninja THEN "ninja" ELSE "make", build_args,
                          extensions[ext_i].build_dir, build_env, rc))
       /\ IF rc # 0
          THEN /\ Abort
               /\ UNCHANGED ext_i
          ELSE IF ext_i < Len(extensions)
               THEN /\ pc' = "build_extension"
                    /\ ext_i' = ext_i + 1
                    /\ UNCHANGED exit_status
               ELSE /\ pc' = "exited"
                    /\ exit_status' = "zero"
                    /\ UNCHANGED ext_i
  /\ UNCHANGED <<environ, cwd, cur_dir, ipex_git_sha, torch_git_sha, version,
                 version_files, installed, platform_system, cmake, use_ninja,
                 build_env, build_dir_made>>
  /\ UnchangedRest

Next ==
  \/ GetGitHeadSha
  \/ GetBuildVersion
  \/ CreateVersionFiles
  \/ Setup
  \/ GenerateSparse
  \/ GenerateDense
  \/ FindCMake
  \/ Configure
  \/ Compile

Spec == Init /\ [][Next]_vars


----------------------------------------------------------------------------
(* _check_env_flag on its own: every flag, read with every enumerated value *)

FlagAlphabet == {"o", "n", "N", "y", "Y", "e", "s", "1", "0", " "}
LongFlagValues == {<<"t","r","u","e">>, <<"T","R","U","E">>, <<"T","r","u","e">>,
                   <<"f","a","l","s","e">>, <<"y","e","s"," ">>, <<"O","N","E">>}
FlagInputs == StringsUpTo(FlagAlphabet, MaxLen) \cup LongFlagValues \cup {None}

\* the variables only the script run uses
IdleRun ==
  /\ cwd = base_dir /\ start_dir = base_dir /\ cur_dir = <<>> /\ calls = <<>>
  /\ exit_status = "running"
  /\ torch_git_sha = None /\ version_files = <<>>
  /\ installed = {} /\ platform_system = "Linux" /\ cmake = NoExecutable
  /\ ext_i = 0 /\ use_ninja = FALSE /\ build_env = EmptyEnv
  /\ build_dir_made = FALSE

InitFlag ==
  /\ flag_name \in FlagNames
  /\ \E v \in FlagInputs : environ = [EmptyEnv EXCEPT ![flag_name] = v]
  /\ flag_result = "unread"
  /\ pc = "check_env_flag"
  /\ ipex_git_sha = None /\ version = None
  /\ gitignore = <<>> /\ fs = {} /\ undeletable = {}
  /\ line_i = 0 /\ globbed = {} /\ removed = {}
  /\ IdleRun

\* lines 36-37, as called at lines 69, 179, 183, 195, 198, 201, 208
CheckEnvFlag ==
  /\ pc = "check_env_flag"
  /\ flag_result' = IF check_env_flag(environ, flag_name, FlagDefault(flag_name))
                    THEN "true" ELSE "false"
  /\ pc' = "flag_read"
  /\ UNCHANGED <<environ, cwd, cur_dir, calls, exit_status, ipex_git_sha,
                 torch_git_sha, version, version_files, installed,
                 platform_system, cmake, ext_i, use_ninja, build_env,
                 build_dir_made, flag_name, gitignore, fs, undeletable,
                 line_i, globbed, removed, start_dir>>

NextFlag == CheckEnvFlag

SpecFlag == InitFlag /\ [][NextFlag]_vars

----------------------------------------------------------------------------
(* get_build_version on its own: every flag value, base version and hash,   *)
(* a missing hash (None, or the empty output) included                      *)

VersionedInputs == {None, <<>>, <<"0">>, <<"1">>, <<"o","n">>, <<"O","N">>,
                    <<"T","r","u","e">>, <<"y">>, <<"n","o">>, <<"o","f","f">>}
BaseVersionInputs == {None, <<"2",".","1">>, <<"1",".","0",".","0","r","c">>}
ShaInputs == Shas \cup {None, <<>>, <<"a","b","c">>,
                        <<"1","2","3","4","5","6","7">>,
                        <<"1","2","3","4","5","6","7","8">>}

InitVersion ==
  /\ \E vb \in VersionedInputs, v \in BaseVersionInputs :
       environ = [EmptyEnv EXCEPT !["VERSIONED_IPEX_BUILD"] = vb,
                                  !["TORCH_IPEX_VERSION"] = v]
  /\ ipex_git_sha \in ShaInputs
  /\ version = None
  /\ pc = "get_build_version"
  /\ IdleRun
  /\ IdleRest

NextVersion == GetBuildVersion

SpecVersion == InitVersion /\ [][NextVersion]_vars


----------------------------------------------------------------------------
(* The clean hook, IPEXClean.run *)

Hash == <<"#">>
\* " BEGIN NOT-CLEAN-FILES ", the group of the pattern of line 132
MarkerGroup == <<" ","B","E","G","I","N"," ","N","O","T","-","C","L","E","A","N",
                 "-","F","I","L","E","S"," ">>
\* the marker's words, without the spaces around them
MarkerWords == SubSeq(MarkerGroup, 2, Len(MarkerGroup) - 1)

\* re.compile(r'^#( BEGIN NOT-CLEAN-FILES )?').match(line)
pat_match(line) == StartsWith(line, Hash)

pat_group1_loose(line) == StartsWith(line, Hash \o <<" ">> \o MarkerWords)

\* match.group(1)
pat_group1(line) == StartsWith(line, Hash \o MarkerGroup)

\* fnmatch of one path component against a pattern of literals and '*'
RECURSIVE fnmatch(_, _)
fnmatch(name, p) ==
  IF p = <<>> THEN name = <<>>
  ELSE IF Head(p) = "*"
       THEN fnmatch(name, Tail(p)) \/ (name # <<>> /\ fnmatch(Tail(name), p))
       ELSE name # <<>> /\ Head(name) = Head(p) /\ fnmatch(Tail(name), Tail(p))

\* glob.glob(wildcard): '*' does not match a leading dot
glob(wildcard, entries) ==
  {f \in entries : /\ fnmatch(f, wildcard)
                   /\ (f # <<>> /\ Head(f) = ".") =>
                         (wildcard # <<>> /\ Head(wildcard) = ".")}

\* ignores.split('\n') filtered by filter(None, ...)
wildcards(lines) == SelectSeq(lines, LAMBDA l : l # <<>>)

BuildDir == <<"b","u","i","l","d">>
LibA == <<"a",".","s","o">>
LibB == <<"b",".","s","o">>
Source == <<"k",".","p","y">>
Entries == {BuildDir, LibA, LibB, Source}

StarSo == <<"*",".","s","o">>
StarPy == <<"*",".","p","y">>
IgnoreLines ==
  { <<>>,                                  \* an empty line
    <<"#"," ","x">>,                       \* a comment
    BuildDir, StarSo, StarPy,
    Hash \o MarkerGroup \o <<"(">>,        \* the marker, text after it
    Hash \o <<" ">> \o MarkerWords,        \* the marker at the end of its line
    <<" ">> \o Hash \o MarkerGroup }       \* the marker, indented

InitClean ==
  /\ gitignore \in UNION {[1..k -> IgnoreLines] : k \in 0..MaxLines}
  /\ fs \in {Entries, {LibA, Source}}
  /\ undeletable \in {{}, {LibB}}
  /\ line_i = 1
  /\ globbed = {}
  /\ removed = {}
  /\ pc = "clean"
  /\ environ = EmptyEnv
  /\ ipex_git_sha = None /\ version = None
  /\ flag_name = "" /\ flag_result = "unread"
  /\ IdleRun

UnchangedRun ==
  UNCHANGED <<environ, cwd, start_dir, cur_dir, calls, ipex_git_sha, torch_git_sha,
              version, version_files, installed, platform_system, cmake,
              ext_i, use_ninja, build_env, build_dir_made, flag_name,
              flag_result, gitignore, undeletable>>

\* os.remove(f), and shutil.rmtree(f, ignore_errors=True) when that raises:
\* what neither can remove stays, silently
remove_or_rmtree(matches, locked) == matches \ locked

\* lines 133-145: one turn of the loop over the non-empty lines
CleanLine ==
  /\ pc = "clean"
  /\ line_i <= Len(wildcards(gitignore))
  /\ LET wildcard == wildcards(gitignore)[line_i]
     IN  IF pat_match(wildcard)
         THEN /\ IF pat_group1(wildcard)
                 THEN pc' = "clean_base" /\ UNCHANGED line_i      \* break
                 ELSE UNCHANGED pc /\ line_i' = line_i + 1        \* a comment
              /\ UNCHANGED <<fs, globbed, removed>>
         ELSE LET gone == remove_or_rmtree(glob(wildcard, fs), undeletable)
              IN  /\ globbed' = globbed \cup {line_i}
                  /\ fs' = fs \ gone
                  /\ removed' = removed \cup gone
                  /\ line_i' = line_i + 1
                  /\ UNCHANGED pc
  /\ UNCHANGED exit_status
  /\ UnchangedRun

\* the loop runs out of lines
CleanLoopEnd ==
  /\ pc = "clean"
  /\ line_i > Len(wildcards(gitignore))
  /\ pc' = "clean_base"
  /\ UNCHANGED <<exit_status, line_i, fs, globbed, removed>>
  /\ UnchangedRun

\* line 148: distutils' own clean
CleanBase ==
  /\ pc = "clean_base"
  /\ pc' = "exited"
  /\ exit_status' = "zero"
  /\ UNCHANGED <<line_i, fs, globbed, removed>>
  /\ UnchangedRun

NextClean == CleanLine \/ CleanLoopEnd \/ CleanBase

SpecClean == InitClean /\ [][NextClean]_vars


----------------------------------------------------------------------------
(* What the claims speak of *)

IsGenerator(c) == c.prog \in {"./gen-sparse-cpu-ops.sh", "./gen-dense-cpu-ops.sh"}
IsConfigure(c) == c.prog \in Executables
IsCompile(c) == c.prog \in {"make", "ninja"}
CallIndexes == 1..Len(calls)

HasArg(c, flag) == \E k \in 1..Len(c.args) : c.args[k].flag = flag
ArgVal(c, flag) == c.args[CHOOSE k \in 1..Len(c.args) : c.args[k].flag = flag].val

\* case-insensitive equality with one of the words
EqualsIgnoringCase(v, words) == v # None /\ lower(v) \in words

FourWords == {<<"o","n">>, <<"1">>, <<"y","e","s">>, <<"t","r","u","e">>}
FiveWords == FourWords \cup {<<"y">>}

Contains(str, sub) ==
  \E k \in 0..(Len(str) - Len(sub)) : SubSeq(str, k + 1, k + Len(sub)) = sub

UseSycl == check_env_flag(environ, "USE_SYCL", <<>>)
Versioned == check_env_flag(environ, "VERSIONED_IPEX_BUILD", <<"0">>)

----------------------------------------------------------------------------
(* C1 *)

BackendInvalid ==
  LET b == environ["IPEX_BACKEND"]
  IN  b # None /\ strip(b) # <<>> /\ b \notin {cpu, gpu}

\* C1: a run whose IPEX_BACKEND is a non-blank string other than "cpu" or "gpu"
\* invokes no generator, no cmake and no make/ninja and ends with a non-zero
\* status; an unset or blank IPEX_BACKEND resolves to "cpu", and "gpu" to "gpu".
C1_InvalidBackendStopsRun ==
  /\ BackendInvalid =>
       /\ \A i \in CallIndexes :
            ~(IsGenerator(calls[i]) \/ IsConfigure(calls[i]) \/ IsCompile(calls[i]))
       /\ pc = "exited" => exit_status = "nonzero"
  /\ (environ["IPEX_BACKEND"] = None \/ strip(environ["IPEX_BACKEND"]) = <<>>)
       => get_env_backend(environ) = cpu
  /\ environ["IPEX_BACKEND"] = gpu => get_env_backend(environ) = gpu

----------------------------------------------------------------------------
(* C2 *)

\* C2 as stated: a flag resolves true exactly when its value equals, ignoring
\* case, one of "on", "1", "yes", "true"; every other value, the empty string
\* and an unset variable resolve false.
C2_OnlyFourWordsAreTrue ==
  pc = "flag_read" =>
    (flag_result = "true" <=> EqualsIgnoringCase(environ[flag_name], FourWords))

\* C2 amended: a flag resolves true exactly when its value equals, ignoring
\* case, one of "on", "1", "yes", "true", "y"; every other value, the empty
\* string and an unset variable resolve false.
C2_FiveWordsAreTrue ==
  pc = "flag_read" =>
    /\ flag_result \in {"true", "false"}
    /\ flag_result = "true" <=> EqualsIgnoringCase(environ[flag_name], FiveWords)

C2_Witness ==
  /\ pc = "flag_read"
  /\ environ[flag_name] = <<"Y","e","s">>
  /\ flag_result = "true"

----------------------------------------------------------------------------
(* C3 *)

GitFailed ==
  \E i \in CallIndexes :
    calls[i].prog = "git" /\ calls[i].cwd = base_dir /\ calls[i].rc # 0

\* C3: when VERSIONED_IPEX_BUILD is true and the query of this project's
\* revision hash fails, the run does not abort: it goes on to resolve the
\* version, which is the base version, and to emit the version files.
C3_GitFailureIsSwallowed ==
  (Versioned /\ GitFailed) =>
    /\ exit_status # "nonzero" \/ version_files # <<>>
    /\ pc \notin {"get_git_head_sha", "get_build_version"} =>
         version = getenv(environ, "TORCH_IPEX_VERSION", DefaultVersion)

----------------------------------------------------------------------------
(* C4 *)

SparseFailed ==
  \E i \in CallIndexes :
    calls[i].prog = "./gen-sparse-cpu-ops.sh" /\ calls[i].rc \in ExitCodes \ {0}

\* C4: once the sparse generator has exited with a non-zero status, the dense
\* generator is never invoked, the process has exited with a non-zero status,
\* and the working directory is the one the script was in before it entered
\* generate_ipex_cpu_aten_code.
C4_SparseFailureStopsAndRestores ==
  /\ pc \in {"get_git_head_sha", "get_build_version", "create_version_files",
             "setup", "generate_sparse"} => cwd = start_dir
  /\ SparseFailed =>
       /\ \A i \in CallIndexes : calls[i].prog # "./gen-dense-cpu-ops.sh"
       /\ pc = "exited"
       /\ exit_status = "nonzero"
       /\ cwd = start_dir

C4_Witness ==
  /\ SparseFailed
  /\ pc = "exited"
  /\ start_dir = <<"home">>
  /\ cwd = <<"home">>

----------------------------------------------------------------------------
(* C5 *)

InstallDirScoped(c) ==
  LET LastOf(path) == path[Len(path)]
  IN  /\ LastOf(ArgVal(c, "-DCMAKE_INSTALL_PREFIX=")) = "torch_ipex"
      /\ LastOf(ArgVal(c, "-DCMAKE_LIBRARY_OUTPUT_DIRECTORY=")) = "torch_ipex"

InstallDirPlain(c) ==
  /\ ArgVal(c, "-DCMAKE_INSTALL_PREFIX=") = ExtFullDir
  /\ ArgVal(c, "-DCMAKE_LIBRARY_OUTPUT_DIRECTORY=") = ExtFullDir

\* C5: the install directory the configure step of the extension of setup()
\* gets as CMAKE_INSTALL_PREFIX and CMAKE_LIBRARY_OUTPUT_DIRECTORY ends with
\* the segment /torch_ipex when USE_SYCL resolves true, and has no such
\* segment appended when USE_SYCL resolves false.
C5_SyclScopesInstallDir ==
  \A i \in CallIndexes :
    IsConfigure(calls[i]) =>
      IF check_env_flag(calls[i].env, "USE_SYCL", <<>>)
      THEN InstallDirScoped(calls[i])
      ELSE InstallDirPlain(calls[i])


----------------------------------------------------------------------------
(* C6 *)

Wildcards == wildcards(gitignore)
CleanLoopOver == pc \in {"clean_base", "exited"}
\* the entries that were there when the hook began
FsAtStart == fs \cup removed

\* the first line a set of line numbers holds
FirstOf(S) == CHOOSE i \in S : \A j \in S : i <= j

\* the lines that hold the words BEGIN NOT-CLEAN-FILES
LinesWithMarkerWords ==
  {i \in 1..Len(Wildcards) : Contains(Wildcards[i], MarkerWords)}

\* the lines that begin with "# BEGIN NOT-CLEAN-FILES " (hash, one space, the
\* words, one space)
LinesWithExactMarker ==
  {i \in 1..Len(Wildcards) : StartsWith(Wildcards[i], Hash \o MarkerGroup)}

\* C6 as stated: when a line of .gitignore holds the BEGIN NOT-CLEAN-FILES
\* marker, no line after it is globbed and nothing only such a line matches
\* is deleted, and once the hook's loop is over every entry matched by a
\* non-comment line before the marker is gone.
C6_MarkerSplitsTheIgnoreList ==
  LinesWithMarkerWords # {} =>
    LET m == FirstOf(LinesWithMarkerWords)
    IN  /\ \A i \in globbed : i <= m
        /\ CleanLoopOver =>
             \A i \in 1..(m - 1) :
               ~StartsWith(Wildcards[i], Hash) =>
                 \A f \in glob(Wildcards[i], FsAtStart) : f \notin fs

\* C6 amended: when a line of .gitignore begins with exactly
\* "# BEGIN NOT-CLEAN-FILES " (hash, one space, the words, one space), no line
\* from the first such line on is globbed and nothing is deleted but what a
\* line before it matches; and once the hook's loop is over, every entry that
\* glob matches for a non-empty line before it that does not begin with "#"
\* is gone, unless the operating system refused to remove it (the refusal is
\* ignored).
C6_ExactMarkerSplitsTheIgnoreList ==
  LinesWithExactMarker # {} =>
    LET m == FirstOf(LinesWithExactMarker)
        Patterns == {i \in 1..(m - 1) : ~StartsWith(Wildcards[i], Hash)}
    IN  /\ globbed \subseteq Patterns
        /\ \A f \in removed : \E i \in Patterns : f \in glob(Wildcards[i], FsAtStart)
        /\ removed \cap undeletable = {}
        /\ CleanLoopOver =>
             \A i \in Patterns :
               \A f \in glob(Wildcards[i], FsAtStart) :
                 f \notin undeletable => (f \notin fs /\ f \in removed)

C6_Witness ==
  /\ CleanLoopOver
  /\ LinesWithExactMarker = {2}
  /\ Wildcards[1] = StarSo
  /\ Len(Wildcards) = 3
  /\ Wildcards[3] = StarPy
  /\ removed = {LibA, LibB}
  /\ Source \in fs

----------------------------------------------------------------------------
(* C7 *)

GenerationDone ==
  \E j, k \in CallIndexes :
    /\ j < k
    /\ calls[j].prog = "./gen-sparse-cpu-ops.sh" /\ calls[j].rc = 0
    /\ calls[k].prog = "./gen-dense-cpu-ops.sh" /\ calls[k].rc = 0
    /\ \A i \in CallIndexes : (IsConfigure(calls[i]) \/ IsCompile(calls[i])) => k < i

\* C7: cmake and make/ninja are invoked only after the sparse generator and
\* then the dense generator have been invoked and have returned zero, and
\* with the working directory back at the directory the script started in.
C7_GenerationPrecedesBuild ==
  (\/ pc \in {"build_extension", "compile"}
   \/ \E i \in CallIndexes : IsConfigure(calls[i]) \/ IsCompile(calls[i]))
  => /\ GenerationDone
     /\ cwd = start_dir

C7_Witness ==
  /\ \E i \in CallIndexes : IsCompile(calls[i])
  /\ GenerationDone
  /\ start_dir = <<"home">>
  /\ cwd = <<"home">>

----------------------------------------------------------------------------
(* C8 *)

ConfigureCalls == {i \in CallIndexes : IsConfigure(calls[i])}
CompileCalls == {i \in CallIndexes : IsCompile(calls[i])}

\* C8: when no cmake is installed or the host is Windows, neither configure
\* nor compile is invoked; a compile invocation directly follows a configure
\* invocation that returned zero, and there is at most one per extension; a
\* generator, configure or compile invocation that returns non-zero leaves
\* the run exited with a non-zero status.
C8_TerminalOnFirstFailure ==
  /\ (installed \cap Executables = {} \/ platform_system = "Windows")
       => (ConfigureCalls = {} /\ CompileCalls = {})
  /\ \A i \in CompileCalls :
       i > 1 /\ IsConfigure(calls[i - 1]) /\ calls[i - 1].rc = 0
  /\ \A i \in ConfigureCalls : calls[i].prog \in installed
  /\ Cardinality(CompileCalls) <= Len(extensions)
  /\ Cardinality(ConfigureCalls) <= Len(extensions)
  /\ \A i \in CallIndexes :
       ((IsGenerator(calls[i]) \/ IsConfigure(calls[i]) \/ IsCompile(calls[i]))
        /\ calls[i].rc # 0)
       => (i = Len(calls) /\ pc = "exited" /\ exit_status = "nonzero")

C8_Witness ==
  /\ \E i \in ConfigureCalls : calls[i].rc # 0
  /\ CompileCalls = {}
  /\ pc = "exited"
  /\ exit_status = "nonzero"

----------------------------------------------------------------------------
(* C9 *)

----------------------------------------------------------------------------
(* C10 *)

\* C10: when USE_SYCL resolves true, configure and compile run with an
\* environment whose CXX is "compute++" and configure's arguments hold
\* -DUSE_SYCL=1; when it resolves false, their environment is the unmodified
\* process environment and -DUSE_SYCL=1 is absent.
C10_SyclSwapsTheCompiler ==
  \A i \in CallIndexes :
    (IsConfigure(calls[i]) \/ IsCompile(calls[i])) =>
      IF UseSycl
      THEN /\ calls[i].env["CXX"] = compute_pp
           /\ IsConfigure(calls[i]) => HasArg(calls[i], "-DUSE_SYCL=1")
      ELSE /\ calls[i].env = environ
           /\ calls[i].env = calls[1].env
           /\ ~HasArg(calls[i], "-DUSE_SYCL=1")

====
